---- MODULE Spec2Model ----
(***************************************************************************)
(* Model of seldom_map_nav's navigation core: src/src/nav.rs               *)
(* (Pathfind, Nav, generate_paths, nav, collision_avoidance) as scheduled  *)
(* by nav_plugin: (apply_deferred, generate_paths, nav).chain().           *)
(*                                                                         *)
(* Geometry.  All points of a run lie on one line, so a Vec2 is its        *)
(* coordinate on that line (an integer number of world units), length is   *)
(* the absolute value and normalize is the sign.  The f32 constants 4.2    *)
(* and 0.88 are kept as exact fractions.                                   *)
(*                                                                         *)
(* Time.  Duration values are whole time units; time.delta_seconds() is    *)
(* the number of units the frame took.                                     *)
(***************************************************************************)
EXTENDS Integers, Sequences, FiniteSets, TLC

\* ------------------------------------------------------------------ bounds

\* time.elapsed() never passes MaxTime in a run
MaxTime == 3
\* a frame lasts 0..MaxDelta time units
MaxDelta == 2
\* at most MaxRequests components are inserted from outside in a run
MaxRequests == 2

\* the entities of the world, each with a position, and those the host makes
\* navigate
Entities == {1, 2}
Navigators == {1}
\* where each entity starts
StartPos == [e \in Entities |-> IF e = 1 THEN 0 ELSE -10]
\* the entities holding a Navmeshes component, and the maps a request may name
Tilemaps == {"tilemap"}
Maps == {"tilemap", "nomap"}
\* the clearances the tilemap has a navmesh for, and the radii a request may ask
MeshClearances == {1}
Radii == {1, 9}
\* the static goals of the requests, and the corners a mesh may route through
Goals == {100}
Corners == {50}
\* Nav::new(speed)
Speeds == {50}
\* repath_frequency of the periodic requests
Intervals == {2}

\* --------------------------------------------------------- program constants

\* forces.rs: velocities and forces are counted in hundredths of a unit
Centi == 100
\* MAX_QUEUE_AHEAD = 54.2, MAX_FORCE = 3.6 and SEEK_FORCE_RATE = 1.0 in
\* hundredths; the factors 0.8 of the brake and 0.3 of the queue likewise
MAX_QUEUE_AHEAD_X100 == 5420
AVOID_RADIUS == 36
MAX_QUEUE_RADIUS == 52
SEPARATION_RADIUS == 38
MAX_FORCE_X100 == 360
SEEK_FORCE_RATE_X100 == 100
BRAKE_RATE_X100 == 80
QUEUE_DAMPING_X100 == 30

\* const MAX_SEE_AHEAD: f32 = 4.2, as a fraction
MAX_SEE_AHEAD_NUM == 21
MAX_SEE_AHEAD_DEN == 5
\* const MAX_AVOID_FORCE: f32 = 0.88, as a fraction
MAX_AVOID_FORCE_NUM == 22
MAX_AVOID_FORCE_DEN == 25
\* const COLLISION_RADIUS: f32 = 48.
COLLISION_RADIUS == 48
\* Duration::ZERO and Duration::MAX (any value no elapsed time reaches)
DurationZERO == 0
DurationMAX == 2147483647

\* ------------------------------------------------------------------ vectors

Abs(x) == IF x < 0 THEN -x ELSE x

\* Vec2::length of a vector on the line
Length(v) == Abs(v)

\* Vec2::normalize of a non-zero vector on the line (the zero vector gives NaN,
\* which the callers below treat apart)
Normalize(v) == IF v < 0 THEN -1 ELSE 1

\* ----------------------------------------------------------------- the types

\* Option<T> as a sequence of at most one element
None == <<>>
Some(x) == <<x>>

\* enum PathTarget
Static(p) == [kind |-> "Static", pos |-> p, entity |-> 0]
Dynamic(e) == [kind |-> "Dynamic", pos |-> 0, entity |-> e]

\* Pathfind_new starting from the "already planned" value of next_repath
Pathfind_new_planned(map, radius, repath_frequency, target) ==
    [map |-> map,
     radius |-> radius,
     repath_frequency |-> repath_frequency,
     next_repath |-> DurationMAX,
     target |-> target,
     path |-> <<>>]

\* Pathfind::new(map, radius, repath_frequency, target, query, path_mode);
\* query and path_mode are passed through to the navmesh and kept out
Pathfind_new(map, radius, repath_frequency, target) ==
    [map |-> map,
     radius |-> radius,
     repath_frequency |-> repath_frequency,
     next_repath |-> DurationZERO,
     target |-> target,
     path |-> <<>>]

\* Nav::new(speed)
Nav_new(speed) == [speed |-> speed, done |-> FALSE]

\* -------------------------------------------------------------------- state

VARIABLES
    entities,   \* the entities that exist; each has a position component P
    position,   \* P of each entity
    pathfinds,  \* the entities with a Pathfind component
    pathfind,   \* the Pathfind of each of them
    navs,       \* the entities with a Nav component
    nav,        \* the Nav of each of them
    colliders,  \* the entities with a Collider component
    tree,       \* Res<KDTree>: the last snapshot of the colliders' positions
    Done,       \* seldom_state's Done component of each entity: the signal
    commands,   \* the Commands queued by the systems of this frame
    elapsed,    \* time.elapsed()
    delta,      \* time.delta_seconds() of the frame
    pc,         \* the system of the chain that runs
    todo,       \* the entities the running system has still to iterate
    requests,   \* how many components were inserted from outside
    stepped,    \* the Pathfinds generate_paths has iterated at least once
    replaced,   \* the Pathfinds that replaced one generate_paths had iterated
    repathed,   \* the entities whose path closure ran in this frame
    failed,     \* the entities whose last path closure returned Err
    planned,    \* the entities generate_paths has iterated in this frame
    navigated,  \* the entities nav has iterated in this frame
    owed,       \* length of the last planned path not yet covered by budgets
    succeeded,  \* the entities sent Done::Success since their path is empty
    last_repath, \* time.elapsed() at the last repath of each periodic Pathfind
    forces      \* the arguments of the last call of apply_forces

vars == <<entities, position, pathfinds, pathfind, navs, nav, colliders, tree,
          Done, commands, elapsed, delta, pc, todo, requests, stepped,
          replaced, repathed, failed, planned, navigated, owed, succeeded,
          last_repath,
          forces>>

\* the components and resources of the world
world == <<entities, position, pathfinds, pathfind, navs, nav, colliders, tree,
           Done, commands>>
\* the bookkeeping of the claims
history == <<stepped, replaced, repathed, failed, planned, navigated, owed,
             succeeded, last_repath>>

\* forces before apply_forces is called: no entity is self_id
NoCall == [self_id |-> 0, target_pos |-> 0, current_pos |-> 0,
           current_velocity |-> 0]

\* owed of a path that is not followed from its planning on by one Nav with no
\* collider in the tree
Untracked == 0 - 1

Init ==
    /\ entities = Entities
    /\ position = StartPos
    /\ pathfinds = {}
    /\ pathfind = [e \in Entities |-> Pathfind_new("tilemap", 1, None, Static(0))]
    /\ navs = {}
    /\ nav = [e \in Entities |-> Nav_new(0)]
    /\ colliders = Entities
    /\ tree = {}
    /\ Done = [e \in Entities |-> "None"]
    /\ commands = <<>>
    /\ elapsed = 0
    /\ delta = 0
    /\ pc = "idle"
    /\ todo = {}
    /\ requests = 0
    /\ stepped = {}
    /\ replaced = {}
    /\ repathed = {}
    /\ failed = {}
    /\ planned = {}
    /\ navigated = {}
    /\ owed = [e \in Entities |-> Untracked]
    /\ succeeded = {}
    /\ last_repath = [e \in Entities |-> Untracked]
    /\ forces = NoCall

\* ------------------------------------------------------------ the navmesh

\* meshes.get(pathfind.map)?.mesh(pathfind.radius): the tilemap's navmesh with
\* a clearance of at least the radius, if it has one
HasMesh(map, radius) ==
    /\ map \in Tilemaps
    /\ \E c \in MeshClearances : c >= radius

\* the waypoint sequences a mesh may answer find_path(from, to) with: straight
\* to the goal, with the start as first waypoint, or through a corner
Routes(from, to) ==
    {<<to>>, <<from, to>>}
        \cup {<<c, to>> : c \in Corners}
        \cup (IF from = to THEN {<<>>} ELSE {})

\* NavMesh::find_path(from, to, query, path_mode): None when the mesh joins
\* the two points by no path
FindPath(from, to) == {None} \cup {Some(r) : r \in Routes(from, to)}

\* length of the polyline from pos through the waypoints of path
RECURSIVE PathLength(_, _)
PathLength(pos, path) ==
    IF path = <<>> THEN 0
    ELSE Length(Head(path) - pos) + PathLength(Head(path), Tail(path))

\* ------------------------------------------------------------- the schedule

\* the systems added without .chain(): either may run at any point of the frame
Unchained(system) == pc \in {"generate_paths", "nav"}

\* (apply_deferred, generate_paths, nav).chain(): a system of the chain runs
\* when the one before it has finished
Chain(system) == pc = system

\* ----------------------------------------------------------- generate_paths

\* Repath with the periodic policy leaving next_repath as it was
RepathNoDeadline(pf, now) ==
    IF pf.repath_frequency # None
    THEN [repath |-> pf.next_repath <= now, next_repath |-> pf.next_repath]
    ELSE LET path == pf.next_repath = DurationZERO
         IN  [repath |-> path,
              next_repath |-> IF path THEN DurationMAX ELSE pf.next_repath]

\* Repath with the periodic deadline counted from time.delta()
RepathFromDelta(pf, now) ==
    IF pf.repath_frequency # None
    THEN LET repath == pf.next_repath <= now
         IN  [repath |-> repath,
              next_repath |-> IF repath
                              THEN delta + pf.repath_frequency[1]
                              ELSE pf.next_repath]
    ELSE LET path == pf.next_repath = DurationZERO
         IN  [repath |-> path,
              next_repath |-> IF path THEN DurationMAX ELSE pf.next_repath]

\* Repath with the once policy leaving next_repath as it was
RepathNoSentinel(pf, now) ==
    IF pf.repath_frequency # None
    THEN LET repath == pf.next_repath <= now
         IN  [repath |-> repath,
              next_repath |-> IF repath
                              THEN now + pf.repath_frequency[1]
                              ELSE pf.next_repath]
    ELSE [repath |-> pf.next_repath = DurationZERO,
          next_repath |-> pf.next_repath]

\* Repath with the periodic policy counting from the deadline that passed
RepathFromDeadline(pf, now) ==
    IF pf.repath_frequency # None
    THEN LET repath == pf.next_repath <= now
         IN  [repath |-> repath,
              next_repath |-> IF repath
                              THEN pf.next_repath + pf.repath_frequency[1]
                              ELSE pf.next_repath]
    ELSE LET path == pf.next_repath = DurationZERO
         IN  [repath |-> path,
              next_repath |-> IF path THEN DurationMAX ELSE pf.next_repath]

\* the repath decision of one Pathfind at time.elapsed() = now: whether to
\* repath, and the next_repath it leaves
Repath(pf, now) ==
    IF pf.repath_frequency # None
    THEN LET repath == pf.next_repath <= now
         IN  [repath |-> repath,
              next_repath |-> IF repath
                              THEN now + pf.repath_frequency[1]
                              ELSE pf.next_repath]
    ELSE LET path == pf.next_repath = DurationZERO
         IN  [repath |-> path,
              next_repath |-> IF path THEN DurationMAX ELSE pf.next_repath]

\* the results the path closure may return for entity e: Err as None, Ok(path)
\* as Some(path)
PathClosure(e) ==
    LET pf == pathfind[e]
    IN  IF ~HasMesh(pf.map, pf.radius) THEN {None}
        ELSE IF pf.target.kind = "Dynamic" /\ pf.target.entity \notin entities
        THEN {None}
        ELSE FindPath(position[e],
                      IF pf.target.kind = "Static" THEN pf.target.pos
                      ELSE position[pf.target.entity])

\* StoredPath keeping the path the Pathfind had when the closure returns Err
StoredPathKeep(result, old) == IF result = None THEN old ELSE result[1]

\* path.unwrap_or_default()
StoredPath(result, old) == IF result = None THEN <<>> ELSE result[1]

\* GeneratePaths leaving the loop when the path closure fails
GeneratePathsAbort(e) ==
    /\ Chain("generate_paths")
    /\ e \in todo
    /\ stepped' = stepped \cup {e}
    /\ planned' = planned \cup {e}
    /\ LET r == Repath(pathfind[e], elapsed)
       IN  IF ~r.repath
           THEN /\ pathfind' = [pathfind EXCEPT ![e].next_repath = r.next_repath]
                /\ todo' = todo \ {e}
                /\ UNCHANGED <<nav, commands, repathed, failed, owed, succeeded,
                               last_repath>>
           ELSE \E result \in PathClosure(e) :
                LET failure == result = None
                    path == StoredPath(result, pathfind[e].path)
                IN  /\ pathfind' = [pathfind EXCEPT ![e].next_repath = r.next_repath,
                                                    ![e].path = path]
                    /\ todo' = IF failure THEN {} ELSE todo \ {e}
                    /\ repathed' = repathed \cup {e}
                    /\ failed' = IF failure THEN failed \cup {e} ELSE failed \ {e}
                    /\ owed' = [owed EXCEPT ![e] = IF failure THEN Untracked
                                 ELSE PathLength(position[e], path)]
                    /\ succeeded' = IF path = <<>> THEN succeeded
                                    ELSE succeeded \ {e}
                    /\ last_repath' = [last_repath EXCEPT ![e] =
                           IF pathfind[e].repath_frequency # None THEN elapsed
                           ELSE Untracked]
                    /\ IF e \notin navs
                       THEN UNCHANGED <<nav, commands>>
                       ELSE /\ nav' = [nav EXCEPT ![e].done = path = <<>>]
                            /\ commands' = IF failure
                                           THEN Append(commands, <<e, "Failure">>)
                                           ELSE commands
    /\ UNCHANGED <<entities, position, pathfinds, navs, colliders, tree, Done,
                   elapsed, delta, pc, requests, replaced, navigated, forces>>

\* one iteration of the loop of generate_paths, for entity e
GeneratePaths(e) ==
    /\ Chain("generate_paths")
    /\ e \in todo
    /\ todo' = todo \ {e}
    /\ stepped' = stepped \cup {e}
    /\ planned' = planned \cup {e}
    /\ LET r == Repath(pathfind[e], elapsed)
       IN  IF ~r.repath
           THEN /\ pathfind' = [pathfind EXCEPT ![e].next_repath = r.next_repath]
                /\ UNCHANGED <<nav, commands, repathed, failed, owed, succeeded,
                               last_repath>>
           ELSE \E result \in PathClosure(e) :
                LET failure == result = None
                    path == StoredPath(result, pathfind[e].path)
                IN  /\ pathfind' = [pathfind EXCEPT ![e].next_repath = r.next_repath,
                                                    ![e].path = path]
                    /\ repathed' = repathed \cup {e}
                    /\ failed' = IF failure THEN failed \cup {e} ELSE failed \ {e}
                    /\ owed' = [owed EXCEPT ![e] = IF failure THEN Untracked
                                 ELSE PathLength(position[e], path)]
                    /\ succeeded' = IF path = <<>> THEN succeeded
                                    ELSE succeeded \ {e}
                    /\ last_repath' = [last_repath EXCEPT ![e] =
                           IF pathfind[e].repath_frequency # None THEN elapsed
                           ELSE Untracked]
                    /\ IF e \notin navs
                       THEN UNCHANGED <<nav, commands>>
                       ELSE /\ nav' = [nav EXCEPT ![e].done = path = <<>>]
                            /\ commands' = IF failure
                                           THEN Append(commands, <<e, "Failure">>)
                                           ELSE commands
    /\ UNCHANGED <<entities, position, pathfinds, navs, colliders, tree, Done,
                   elapsed, delta, pc, requests, replaced, navigated, forces>>

\* ------------------------------------------------------ collision avoidance

\* distance from a tree entry to the lookahead point, both scaled by
\* MAX_SEE_AHEAD_DEN (ahead is current_pos + desired_velocity * 4.2)
AheadDistance(entry, ahead) == Abs(MAX_SEE_AHEAD_DEN * entry.pos - ahead)

\* SecondNearest over the positions the colliders have now instead of the
\* tree
SecondNearestLive(ahead) ==
    LET live == {[pos |-> position[e], entity |-> e] :
                     e \in entities \cap colliders}
    IN  {x \in live :
            /\ Cardinality({y \in live \ {x} :
                    AheadDistance(y, ahead) < AheadDistance(x, ahead)}) <= 1
            /\ Cardinality({y \in live \ {x} :
                    AheadDistance(y, ahead) <= AheadDistance(x, ahead)}) >= 1}

\* the entries tree.k_nearest_neighbour(ahead, 2) may hold at index 1: the
\* second nearest, any of them when distances tie
SecondNearest(ahead) ==
    {x \in tree :
        /\ Cardinality({y \in tree \ {x} :
                AheadDistance(y, ahead) < AheadDistance(x, ahead)}) <= 1
        /\ Cardinality({y \in tree \ {x} :
                AheadDistance(y, ahead) <= AheadDistance(x, ahead)}) >= 1}

\* find_closest_obstacle(self_id, self_pos, ahead, ahead2, tree): the
\* Option<Vec2> values it may return
FindClosestObstacle(self_id, ahead) ==
    IF SecondNearest(ahead) = {} THEN {None}
    ELSE {IF x.entity # self_id
             /\ AheadDistance(x, ahead) <= MAX_SEE_AHEAD_DEN * COLLISION_RADIUS
          THEN Some(x.pos) ELSE None : x \in SecondNearest(ahead)}

\* collision_avoidance(self_id, desired_pos, current_pos, tree): the unit
\* vectors (or zero) it may return.  With desired_pos = current_pos the
\* normalize of line 48 is NaN, no distance to a NaN lookahead point is
\* <= COLLISION_RADIUS, and the result is Vec2::ZERO.
CollisionAvoidance(self_id, desired_pos, current_pos) ==
    IF desired_pos = current_pos THEN {0}
    ELSE LET desired_velocity == Normalize(desired_pos - current_pos)
             ahead == MAX_SEE_AHEAD_DEN * current_pos
                          + desired_velocity * MAX_SEE_AHEAD_NUM
         IN  {IF obstacle = None THEN 0
              ELSE Normalize(ahead - MAX_SEE_AHEAD_DEN * obstacle[1]) :
                  obstacle \in FindClosestObstacle(self_id, ahead)}

\* travel_dist * MAX_AVOID_FORCE, cut to whole world units
AvoidDistance(travel_dist) ==
    (travel_dist * MAX_AVOID_FORCE_NUM) \div MAX_AVOID_FORCE_DEN

\* ---------------------------------------------------------------------- nav

\* Reaches with the comparison strict
ReachesStrict(travel_dist, dest_dist) == travel_dist > dest_dist

\* whether the loop of nav consumes the front waypoint, dest_dist away
Reaches(travel_dist, dest_dist) == travel_dist >= dest_dist

\* Consume with pos left where it was when a waypoint is popped
RECURSIVE ConsumeInPlace(_, _, _)
ConsumeInPlace(pos, path, travel_dist) ==
    LET dest == Head(path)
        dest_dist == Length(dest - pos)
    IN  IF Reaches(travel_dist, dest_dist)
        THEN IF Tail(path) = <<>>
             THEN [pos |-> pos, path |-> <<>>,
                   travel_dist |-> travel_dist - dest_dist]
             ELSE ConsumeInPlace(pos, Tail(path), travel_dist - dest_dist)
        ELSE [pos |-> pos, path |-> path, travel_dist |-> travel_dist]

\* the loop of nav on a non-empty path: consume the waypoints the travel
\* distance reaches, from pos on
RECURSIVE Consume(_, _, _)
Consume(pos, path, travel_dist) ==
    LET dest == Head(path)
        dest_dist == Length(dest - pos)
    IN  IF Reaches(travel_dist, dest_dist)
        THEN IF Tail(path) = <<>>
             THEN [pos |-> dest, path |-> <<>>,
                   travel_dist |-> travel_dist - dest_dist]
             ELSE Consume(dest, Tail(path), travel_dist - dest_dist)
        ELSE [pos |-> pos, path |-> path, travel_dist |-> travel_dist]

\* the position nav reaches along the path, before collision avoidance
Advance(c) ==
    IF c.path = <<>> THEN c.pos
    ELSE c.pos + Normalize(Head(c.path) - c.pos) * c.travel_dist

\* owed after a frame with the given travel budget
Owe(e, budget) ==
    IF owed[e] = Untracked \/ tree # {} THEN Untracked
    ELSE IF owed[e] <= budget THEN 0 ELSE owed[e] - budget

\* one iteration of the loop of nav, for entity e
NavStep(e) ==
    /\ Chain("nav")
    /\ e \in todo
    /\ todo' = todo \ {e}
    /\ navigated' = navigated \cup {e}
    /\ IF pathfind[e].path = <<>>
       THEN /\ commands' = Append(commands, <<e, "Success">>)
            /\ succeeded' = succeeded \cup {e}
            /\ UNCHANGED <<position, pathfind, nav, owed>>
       ELSE LET old_pos == position[e]
                travel_dist == nav[e].speed * delta
                c == Consume(old_pos, pathfind[e].path, travel_dist)
                pos == Advance(c)
            IN  /\ pathfind' = [pathfind EXCEPT ![e].path = c.path]
                /\ nav' = [nav EXCEPT ![e].done =
                               IF c.path = <<>> THEN TRUE ELSE nav[e].done]
                /\ commands' = IF c.path = <<>>
                               THEN Append(commands, <<e, "Success">>)
                               ELSE commands
                /\ succeeded' = IF c.path = <<>> THEN succeeded \cup {e}
                                ELSE succeeded
                /\ \E avoid \in CollisionAvoidance(e, pos, old_pos) :
                       position' = [position EXCEPT ![e] =
                           pos + avoid * AvoidDistance(c.travel_dist)]
                /\ owed' = [owed EXCEPT ![e] = Owe(e, travel_dist)]
    /\ UNCHANGED <<entities, pathfinds, navs, colliders, tree, Done, elapsed,
                   delta, pc, requests, stepped, replaced, repathed, failed,
                   planned, last_repath, forces>>

\* ------------------------------------------------------------- the frame

\* a frame starts: the clock advances by dt and generate_paths begins with the
\* entities that have a position and a Pathfind
BeginTick(dt) ==
    /\ pc \in {"idle", "ticked"}
    /\ elapsed + dt <= MaxTime
    /\ elapsed' = elapsed + dt
    /\ delta' = dt
    /\ pc' = "generate_paths"
    /\ todo' = entities \cap pathfinds
    /\ repathed' = {}
    /\ planned' = {}
    /\ navigated' = {}
    /\ UNCHANGED <<world, requests, stepped, replaced, failed, owed, succeeded,
                   last_repath,
                   forces>>

\* generate_paths has iterated its query: nav begins with the entities that
\* have a position, a Pathfind and a Nav
EndGeneratePaths ==
    /\ pc = "generate_paths"
    /\ todo = {}
    /\ pc' = "nav"
    /\ todo' = (entities \cap pathfinds) \cap navs
    /\ UNCHANGED <<world, elapsed, delta, requests, history, forces>>

\* the Done component of each entity once the queued commands are applied in
\* the order they were queued: a later insert replaces an earlier one
RECURSIVE Apply(_, _)
Apply(queue, done) ==
    IF queue = <<>> THEN done
    ELSE Apply(Tail(queue), [done EXCEPT ![Head(queue)[1]] = Head(queue)[2]])

\* nav has iterated its query: the commands of the frame are applied at the
\* next sync point, and the frame is over
EndTick ==
    /\ pc = "nav"
    /\ todo = {}
    /\ Done' = Apply(commands, Done)
    /\ commands' = <<>>
    /\ pc' = "ticked"
    /\ UNCHANGED <<entities, position, pathfinds, pathfind, navs, nav,
                   colliders, tree, elapsed, delta, todo, requests, history,
                   forces>>

\* ------------------------------------------------- between frames: the host

\* the navigation requests the host may make for entity e
Targets(e) == {Static(g) : g \in Goals} \cup {Dynamic(t) : t \in Entities \ {e}}
Frequencies == {None} \cup {Some(i) : i \in Intervals}
Requests(e) ==
    {Pathfind_new("tilemap", 1, f, t) : f \in Frequencies, t \in Targets(e)}
        \cup {Pathfind_new(m, r, None, Static(g)) :
                  m \in Maps, r \in Radii, g \in Goals}

\* the bookkeeping of a Pathfind that replaces whatever e had
Forget(e) ==
    /\ stepped' = stepped \ {e}
    /\ replaced' = IF e \in pathfinds \cap stepped THEN replaced \cup {e}
                   ELSE replaced \ {e}
    /\ repathed' = repathed \ {e}
    /\ failed' = failed \ {e}
    /\ owed' = [owed EXCEPT ![e] = Untracked]
    /\ succeeded' = succeeded \ {e}
    /\ last_repath' = [last_repath EXCEPT ![e] = Untracked]
    /\ UNCHANGED <<planned, navigated>>

Between == pc \in {"idle", "ticked"} /\ requests < MaxRequests

\* the host inserts a Pathfind on e, replacing the one it has
InsertPathfind(e, pf) ==
    /\ Between
    /\ e \in entities
    /\ pathfinds' = pathfinds \cup {e}
    /\ pathfind' = [pathfind EXCEPT ![e] = pf]
    /\ Forget(e)
    /\ requests' = requests + 1
    /\ pc' = "idle"
    /\ UNCHANGED <<entities, position, navs, nav, colliders, tree, Done,
                   commands, elapsed, delta, todo, forces>>

\* the host inserts a Nav on e, replacing the one it has
InsertNav(e, speed) ==
    /\ Between
    /\ e \in entities
    /\ navs' = navs \cup {e}
    /\ nav' = [nav EXCEPT ![e] = Nav_new(speed)]
    /\ owed' = [owed EXCEPT ![e] = Untracked]
    /\ requests' = requests + 1
    /\ pc' = "idle"
    /\ UNCHANGED <<entities, position, pathfinds, pathfind, colliders, tree,
                   Done, commands, elapsed, delta, todo, stepped, replaced,
                   repathed, failed, planned, navigated, succeeded,
                   last_repath, forces>>

\* the host inserts a NavBundle on e
InsertNavBundle(e, pf, speed) ==
    /\ Between
    /\ e \in entities
    /\ pathfinds' = pathfinds \cup {e}
    /\ pathfind' = [pathfind EXCEPT ![e] = pf]
    /\ navs' = navs \cup {e}
    /\ nav' = [nav EXCEPT ![e] = Nav_new(speed)]
    /\ Forget(e)
    /\ requests' = requests + 1
    /\ pc' = "idle"
    /\ UNCHANGED <<entities, position, colliders, tree, Done, commands,
                   elapsed, delta, todo, forces>>

\* the host despawns e: its components go with it
Despawn(e) ==
    /\ pc \in {"idle", "ticked"}
    /\ e \in entities
    /\ entities' = entities \ {e}
    /\ pathfinds' = pathfinds \ {e}
    /\ navs' = navs \ {e}
    /\ colliders' = colliders \ {e}
    /\ pc' = "idle"
    /\ UNCHANGED <<position, pathfind, nav, tree, Done, commands, elapsed,
                   delta, todo, requests, history, forces>>

\* AutomaticUpdate::<Collider>, on its own timer: the tree is rebuilt from the
\* positions the colliders have now
Snapshot == {[pos |-> position[e], entity |-> e] : e \in entities \cap colliders}

RebuildTree ==
    /\ pc \in {"idle", "ticked"}
    /\ tree # Snapshot
    /\ tree' = Snapshot
    /\ UNCHANGED <<entities, position, pathfinds, pathfind, navs, nav,
                   colliders, Done, commands, elapsed, delta, pc, todo,
                   requests, history, forces>>

Next ==
    \/ \E dt \in 0..MaxDelta : BeginTick(dt)
    \/ \E e \in Entities : GeneratePaths(e)
    \/ EndGeneratePaths
    \/ \E e \in Entities : NavStep(e)
    \/ EndTick
    \/ \E e \in Navigators : \E pf \in Requests(e) : InsertPathfind(e, pf)
    \/ \E e \in Navigators : \E speed \in Speeds : InsertNav(e, speed)
    \/ \E e \in Navigators : \E pf \in Requests(e) : \E speed \in Speeds :
           InsertNavBundle(e, pf, speed)
    \/ \E e \in Entities \ Navigators : Despawn(e)
    \/ RebuildTree

Spec == Init /\ [][Next]_vars

\* the requests of a crowd: towards the goal or towards the other entity, and
\* one no navmesh has the clearance for
CrowdRequests(e) ==
    {Pathfind_new("tilemap", r, None, Static(g)) : r \in Radii, g \in Goals}
        \cup {Pathfind_new("tilemap", 1, f, Dynamic(t)) :
                  f \in Frequencies, t \in Entities \ {e}}

\* the same systems with every entity navigating: the host inserts NavBundles,
\* and the tree is never built
NextCrowd ==
    \/ \E dt \in 0..MaxDelta : BeginTick(dt)
    \/ \E e \in Entities : GeneratePaths(e)
    \/ EndGeneratePaths
    \/ \E e \in Entities : NavStep(e)
    \/ EndTick
    \/ \E e \in Entities : \E pf \in CrowdRequests(e) : \E speed \in Speeds :
           InsertNavBundle(e, pf, speed)

SpecCrowd == Init /\ [][NextCrowd]_vars

\* the requests of a pair that chase each other: towards the goal, one no
\* navmesh has the clearance for, and towards the other entity, replanned
PairRequests(e) ==
    {Pathfind_new("tilemap", r, None, Static(g)) : r \in Radii, g \in Goals}
        \cup {Pathfind_new("tilemap", 1, Some(i), Dynamic(t)) :
                  i \in Intervals, t \in Entities \ {e}}

\* a world whose entities are spawned with a NavBundle each, as the
\* surrounding example spawns them
InitPair ==
    /\ entities = Entities
    /\ position = StartPos
    /\ pathfinds = Entities
    /\ pathfind \in {f \in [Entities -> UNION {PairRequests(e) : e \in Entities}] :
                        \A e \in Entities : f[e] \in PairRequests(e)}
    /\ navs = Entities
    /\ nav \in [Entities -> {Nav_new(speed) : speed \in Speeds}]
    /\ colliders = Entities
    /\ tree = {}
    /\ Done = [e \in Entities |-> "None"]
    /\ commands = <<>>
    /\ elapsed = 0
    /\ delta = 0
    /\ pc = "idle"
    /\ todo = {}
    /\ requests = 0
    /\ stepped = {}
    /\ replaced = {}
    /\ repathed = {}
    /\ failed = {}
    /\ planned = {}
    /\ navigated = {}
    /\ owed = [e \in Entities |-> Untracked]
    /\ succeeded = {}
    /\ last_repath = [e \in Entities |-> Untracked]
    /\ forces = NoCall

\* the frames of that world, with its colliders in the tree: AutomaticUpdate
\* rebuilds it between frames
NextPair ==
    \/ \E dt \in 0..MaxDelta : BeginTick(dt)
    \/ \E e \in Entities : GeneratePaths(e)
    \/ EndGeneratePaths
    \/ \E e \in Entities : NavStep(e)
    \/ EndTick
    \/ RebuildTree

SpecPair == InitPair /\ [][NextPair]_vars

\* the speeds a Nav can be built with: Nav::new takes any f32
AnySpeeds == {0 - 50, 0, 50}

\* the same systems with one navigator whose Nav has any speed
NextAnySpeed ==
    \/ \E dt \in 0..MaxDelta : BeginTick(dt)
    \/ \E e \in Entities : GeneratePaths(e)
    \/ EndGeneratePaths
    \/ \E e \in Entities : NavStep(e)
    \/ EndTick
    \/ \E e \in Navigators : \E pf \in CrowdRequests(e) :
           \E speed \in AnySpeeds : InsertNavBundle(e, pf, speed)
    \/ RebuildTree

SpecAnySpeed == Init /\ [][NextAnySpeed]_vars

\* ------------------------------------------------------------- forces.rs

\* NormalizeOrZero leaving the vector as long as it is
NormalizeOrZeroNot(v) == v

\* Vec2::normalize_or_zero, in hundredths
NormalizeOrZero(v) == Normalize(v) * Centi

\* the entries of t that separation_force counts: those that
\* within_distance(current_pos, SEPARATION_RADIUS) yields, self_id left out
SeparationNeighbours(self_id, current_pos, t) ==
    {x \in t : /\ Length(x.pos - current_pos) <= SEPARATION_RADIUS
               /\ x.entity # self_id}

\* what one neighbour adds to the force: delta / rate with
\* rate = delta.length() / SEPARATION_RADIUS, in hundredths (d is delta).  A neighbour on
\* current_pos itself has rate 0 and adds NaN; no tree drawn here holds one.
DeltaOverRate(x, current_pos) ==
    LET d == x.pos - current_pos
    IN  (d * SEPARATION_RADIUS * Centi) \div Length(d)

RECURSIVE SumDeltaOverRate(_, _)
SumDeltaOverRate(neighbours, current_pos) ==
    IF neighbours = {} THEN 0
    ELSE LET x == CHOOSE y \in neighbours : TRUE
         IN  DeltaOverRate(x, current_pos)
                 + SumDeltaOverRate(neighbours \ {x}, current_pos)

\* separation_force(self_id, current_pos, tree), in hundredths
SeparationForce(self_id, current_pos, t) ==
    LET neighbours == SeparationNeighbours(self_id, current_pos, t)
        neighbour_count == Cardinality(neighbours)
        force == SumDeltaOverRate(neighbours, current_pos)
    IN  IF neighbour_count > 0 THEN (0 - force) \div neighbour_count
        ELSE force

\* distance from a tree entry to the lookahead point of get_neighbour_ahead,
\* both scaled by Centi * Centi
QueueDistance(x, ahead) == Abs(x.pos * Centi * Centi - ahead)

\* the lists tree.k_nearest_neighbour(p, 2) may return: the entries nearest to
\* p, nearest first, in either order when distances tie
KNearest2(t, p) ==
    IF t = {} THEN {<<>>}
    ELSE IF Cardinality(t) = 1 THEN {<<x>> : x \in t}
    ELSE {l \in t \X t :
             /\ l[1] # l[2]
             /\ QueueDistance(l[1], p) <= QueueDistance(l[2], p)
             /\ \A z \in t \ {l[1], l[2]} :
                    QueueDistance(l[2], p) <= QueueDistance(z, p)}

\* the first entry of the list that is not self_id and lies within
\* AVOID_RADIUS of p, as an Option
RECURSIVE FirstAhead(_, _, _)
FirstAhead(self_id, p, neighbours) ==
    IF neighbours = <<>> THEN None
    ELSE LET x == Head(neighbours)
         IN  IF /\ x.entity # self_id
                /\ QueueDistance(x, p) <= AVOID_RADIUS * Centi * Centi
             THEN Some(x.pos)
             ELSE FirstAhead(self_id, p, Tail(neighbours))

\* get_neighbour_ahead(self_id, current_pos, current_velocity, tree): the
\* Option<Vec2> values it may return
GetNeighbourAhead(self_id, current_pos, current_velocity, t) ==
    LET ahead == current_pos * Centi * Centi
                     + current_velocity * MAX_QUEUE_AHEAD_X100
    IN  {FirstAhead(self_id, ahead, neighbours) :
             neighbours \in KNearest2(t, ahead)}

\* apply_forces(self_id, target_pos, current_pos, current_velocity, tree), in
\* hundredths: the velocity it may return, with the steering it added and the
\* current_velocity it added it to
ApplyForces(self_id, target_pos, current_pos, current_velocity, t) ==
    LET desired_velocity == NormalizeOrZero(target_pos - current_pos)
        seek == (NormalizeOrZero(desired_velocity - current_velocity)
                    * SEEK_FORCE_RATE_X100) \div Centi
        summed == seek + SeparationForce(self_id, current_pos, t)
        capped == IF summed # 0
                  THEN (NormalizeOrZero(summed) * MAX_FORCE_X100) \div Centi
                  ELSE summed
    IN  {IF obstacle = None
         THEN [velocity |-> NormalizeOrZero(current_velocity + capped),
               steering |-> capped,
               current_velocity |-> current_velocity]
         ELSE LET brake == (0 - current_velocity)
                               - (capped * BRAKE_RATE_X100) \div Centi
                               + SeparationForce(self_id, current_pos, t)
                  damped == IF Length(current_pos - obstacle[1])
                                   <= MAX_QUEUE_RADIUS
                            THEN (current_velocity * QUEUE_DAMPING_X100)
                                     \div Centi
                            ELSE current_velocity
                  steering == capped + brake
              IN  [velocity |-> NormalizeOrZero(damped + steering),
                   steering |-> steering,
                   current_velocity |-> damped] :
             obstacle \in GetNeighbourAhead(self_id, current_pos,
                                            current_velocity, t)}

\* the colliders around the entity that steers: the entity itself and up to
\* two others, each ahead of it, behind it, near or far
Self == CHOOSE e \in Navigators : TRUE
Others == {2, 3}
NeighbourPositions == {0 - 30, 10, 20, 30, 40, 50, 60, 100}
ForceTrees ==
    {{[pos |-> 0, entity |-> Self]} \cup near :
        near \in {n \in SUBSET {[pos |-> q, entity |-> o] :
                                    q \in NeighbourPositions, o \in Others} :
                      \A x \in n : \A y \in n : x.entity = y.entity => x = y}}
ForceTargets == {0 - 100, 0, 100}
Velocities == {0 - Centi, 0, Centi}

\* a world whose tree holds the colliders, before any call of apply_forces
InitForces ==
    /\ entities = Entities
    /\ position = StartPos
    /\ pathfinds = {}
    /\ pathfind = [e \in Entities |-> Pathfind_new("tilemap", 1, None, Static(0))]
    /\ navs = {}
    /\ nav = [e \in Entities |-> Nav_new(0)]
    /\ colliders = Entities
    /\ tree \in ForceTrees
    /\ Done = [e \in Entities |-> "None"]
    /\ commands = <<>>
    /\ elapsed = 0
    /\ delta = 0
    /\ pc = "idle"
    /\ todo = {}
    /\ requests = 0
    /\ stepped = {}
    /\ replaced = {}
    /\ repathed = {}
    /\ failed = {}
    /\ planned = {}
    /\ navigated = {}
    /\ owed = [e \in Entities |-> Untracked]
    /\ succeeded = {}
    /\ last_repath = [e \in Entities |-> Untracked]
    /\ forces = NoCall

\* the host calls apply_forces for the entity, towards target_pos and with
\* the velocity the entity has
CallApplyForces(target_pos, current_velocity) ==
    /\ forces' = [self_id |-> Self, target_pos |-> target_pos,
                  current_pos |-> position[Self],
                  current_velocity |-> current_velocity]
    /\ UNCHANGED <<world, elapsed, delta, pc, todo, requests, history>>

NextForces ==
    \E target_pos \in ForceTargets : \E current_velocity \in Velocities :
        CallApplyForces(target_pos, current_velocity)

SpecForces == InitForces /\ [][NextForces]_vars

\* apply_forces has been called
Called == forces.self_id # 0

\* what the call returns from the tree t
Returned(t) ==
    ApplyForces(forces.self_id, forces.target_pos, forces.current_pos,
                forces.current_velocity, t)

\* ------------------------------------------------------------------ claims

\* the step is the iteration of generate_paths for e
Plans(e) == e \in planned' /\ e \notin planned
\* the step is the iteration of nav for e
Navigates(e) == e \in navigated' /\ e \notin navigated

Once(e) == e \in pathfinds /\ pathfind[e].repath_frequency = None
Periodic(e) == e \in pathfinds /\ pathfind[e].repath_frequency # None

\* C1: under the once policy the path closure runs in the first iteration of
\* generate_paths for a Pathfind and in no later one, whatever the elapsed
\* time; a later iteration leaves path, next_repath and done as they were.
C1_OncePlansOnce ==
    [][\A e \in Entities :
        Plans(e) /\ Once(e) =>
            /\ e \in repathed' <=> e \notin stepped
            /\ e \in stepped => pathfind'[e] = pathfind[e] /\ nav'[e] = nav[e]]_vars

\* a once Pathfind with a path, iterated again after the frame that planned it
C1_Witness ==
    \E e \in Entities :
        /\ Once(e) /\ e \in planned /\ e \notin repathed
        /\ pathfind[e].path # <<>>
        /\ pathfind[e].next_repath = DurationMAX
        /\ elapsed > 0

\* C2: under periodic(interval) an iteration of generate_paths at elapsed time
\* t repaths iff t >= next_repath; when it does, next_repath becomes
\* t + interval; when it does not, the Pathfind is unchanged.
C2_PeriodicRule ==
    [][\A e \in Entities :
        Plans(e) /\ Periodic(e) =>
            LET due == elapsed >= pathfind[e].next_repath
            IN  /\ e \in repathed' <=> due
                /\ due => pathfind'[e].next_repath =
                              elapsed + pathfind[e].repath_frequency[1]
                /\ ~due => pathfind'[e] = pathfind[e]]_vars

\* a periodic Pathfind with a path that was iterated in this frame before its
\* next_repath and left alone
C2_Witness ==
    \E e \in Entities :
        /\ Periodic(e) /\ e \in planned /\ e \notin repathed
        /\ elapsed < pathfind[e].next_repath
        /\ pathfind[e].path # <<>>

\* the entities nav iterates: those with a position, a Pathfind and a Nav
Agents == (entities \cap pathfinds) \cap navs

\* C3: after a complete frame (generate_paths, then nav) every entity with a
\* Pathfind and a Nav has done = path.is_empty(), whatever requests the host
\* made before the frame, a Nav attached after the path was planned included.
C3_ArrivedIffEmpty ==
    pc = "ticked" =>
        \A e \in Agents : nav[e].done <=> pathfind[e].path = <<>>

\* C4: whenever the path closure returns Err, the path becomes empty and
\* Done::Failure is queued for the entity in that iteration.
C4_FailureEmptiesAndSignals ==
    [][\A e \in Entities :
        Plans(e) /\ e \in repathed' /\ e \in failed' =>
            /\ pathfind'[e].path = <<>>
            /\ commands' = Append(commands, <<e, "Failure">>)]_vars

\* C5: after a frame in which the path closure of an entity with a Nav returned
\* Err, the Done component of that entity is Failure.
C5_FailureIsObserved ==
    pc = "ticked" =>
        \A e \in Agents : e \in repathed /\ e \in failed => Done[e] = "Failure"

\* the travel budget of entity e in this frame: nav.speed * time.delta_seconds()
Budget(e) == nav[e].speed * delta

\* C6: in one iteration of nav the entity is displaced by at most
\* speed * delta_seconds, whatever the tree holds; and when the path from the
\* entity through its waypoints is at least that long, the advance along the
\* path (before collision avoidance) is exactly that long.
C6_BudgetConserved ==
    [][\A e \in Entities :
        Navigates(e) /\ pathfind[e].path # <<>> =>
            LET c == Consume(position[e], pathfind[e].path, Budget(e))
                before == PathLength(position[e], pathfind[e].path)
            IN  /\ Abs(position'[e] - position[e]) <= Budget(e)
                /\ before >= Budget(e) =>
                       before - PathLength(Advance(c), c.path) = Budget(e)]_vars

\* C7: an entity that follows a planned path of length L with the Nav it had
\* when the path was planned, no repath and an empty tree, is after each
\* iteration of nav exactly the sum of the budgets further along the path, and
\* has done = true and an empty path from the first frame on at which that
\* sum reaches L (owed = L minus the budgets, cut at 0).
C7_ArrivalOnBudget ==
    \A e \in Agents \cap navigated :
        owed[e] # Untracked =>
            /\ PathLength(position[e], pathfind[e].path) = owed[e]
            /\ nav[e].done <=> owed[e] = 0
            /\ nav[e].done => pathfind[e].path = <<>>

\* the scenario of the specification: from 0 to the goal at 100 with speed 50
\* and frames of one time unit, arrived after the second frame
C7_Witness ==
    /\ 1 \in Agents \cap navigated
    /\ owed[1] = 0 /\ nav[1].done /\ pathfind[1].path = <<>>
    /\ position[1] = 100 /\ elapsed = 2 /\ delta = 1 /\ tree = {}

\* C8: from the iteration of generate_paths in which its path closure returned
\* Err until a new Pathfind is inserted or a later repath succeeds, an entity
\* has an empty path and keeps its position; a once Pathfind is not retried.
C8_FailedStaysPut ==
    [][\A e \in Entities :
        e \in failed' =>
            /\ pathfind'[e].path = <<>>
            /\ position'[e] = position[e]
            /\ e \in failed /\ Once(e) => e \notin repathed' \ repathed]_vars

\* an entity that moved, then failed to repath towards a despawned dynamic
\* target, and has been iterated by nav since
C8_Witness ==
    \E e \in Agents \cap navigated :
        /\ e \in failed
        /\ pathfind[e].target.kind = "Dynamic"
        /\ pathfind[e].target.entity \notin entities
        /\ position[e] # StartPos[e]

\* the position generate_paths resolves the target of e to
TargetPos(e) ==
    IF pathfind[e].target.kind = "Static" THEN pathfind[e].target.pos
    ELSE position[pathfind[e].target.entity]

\* C9: a Pathfind that replaced one generate_paths had already iterated holds
\* no path and next_repath = ZERO, and the next iteration of generate_paths
\* repaths it under either policy, from the position the entity then has.
C9_ReplacementReplans ==
    [][\A e \in replaced' \ stepped' :
           /\ pathfind'[e].path = <<>>
           /\ pathfind'[e].next_repath = DurationZERO]_vars
    /\ [][\A e \in replaced \ stepped :
           Plans(e) =>
               /\ e \in repathed'
               /\ e \notin failed' /\ pathfind'[e].path # <<>> =>
                      pathfind'[e].path \in Routes(position[e], TargetPos(e))]_vars

\* a Pathfind that replaced a planned one, repathed at a later time from a
\* position other than the start
C9_Witness ==
    \E e \in replaced \cap repathed :
        /\ elapsed > 0
        /\ position[e] # StartPos[e]
        /\ pathfind[e].path # <<>>

\* C10: in every frame nav iterates an entity only after generate_paths has
\* iterated every entity with a Pathfind, so nav consumes the path this
\* frame's generate_paths left.
C10_PlannerBeforeMotion ==
    [][\A e \in Entities :
        Navigates(e) => (entities \cap pathfinds) \subseteq planned]_vars

\* both entities were repathed and then iterated by nav in the same frame,
\* and nav moved one of them
C10_Witness ==
    /\ repathed = Entities
    /\ navigated = Entities
    /\ \E e \in Entities : position[e] # StartPos[e]

\* C13: next_repath of a Pathfind never decreases while the Pathfind is the
\* same request: a step that inserts no component leaves it or raises it; under
\* the once policy it is ZERO until the first iteration and Duration::MAX from
\* then on, under the periodic policy every new deadline is at least the one
\* before.
C13_NextRepathMonotone ==
    [][requests' = requests =>
        \A e \in pathfinds :
            /\ pathfind'[e].next_repath >= pathfind[e].next_repath
            /\ Once(e) => pathfind'[e].next_repath \in {DurationZERO, DurationMAX}
            /\ Once(e) /\ Plans(e) => pathfind'[e].next_repath = DurationMAX]_vars

\* a periodic Pathfind that was planned in an earlier frame (its Nav has sent a
\* signal since) and is planned again, with a later deadline
C13_Witness ==
    \E e \in Entities :
        /\ Periodic(e) /\ requests = 1
        /\ Done[e] # "None"
        /\ e \in repathed
        /\ pathfind[e].next_repath > pathfind[e].repath_frequency[1]

\* C14: an iteration of generate_paths whose path closure fails leaves the path
\* empty and does not set done: a Nav whose done was false keeps it false.
C14_FailureKeepsNotArrived ==
    [][\A e \in Entities :
        Plans(e) /\ e \in repathed' /\ e \in failed' /\ e \in navs =>
            /\ pathfind'[e].path = <<>>
            /\ ~nav[e].done => ~nav'[e].done]_vars

\* C16: while the path of an entity stays empty, nav does not move the entity
\* and sends Done::Success once: an iteration of nav for an entity that was
\* sent Success since its path became empty queues no command.
C16_SuccessOnce ==
    [][\A e \in Entities :
        Navigates(e) /\ pathfind[e].path = <<>> /\ e \in succeeded =>
            /\ position' = position
            /\ commands' = commands]_vars

IsSuffix(s, t) ==
    /\ Len(s) <= Len(t)
    /\ s = SubSeq(t, Len(t) - Len(s) + 1, Len(t))

\* the i-th pop of the loop of nav on path started at pos: the position the
\* loop has when it pops (pos, then the waypoint popped before), and the
\* remaining length from that position before the pop and from the popped
\* waypoint after it
PopFrom(pos, path, i) == IF i = 1 THEN pos ELSE path[i - 1]
LengthBeforePop(pos, path, i) ==
    PathLength(PopFrom(pos, path, i), SubSeq(path, i, Len(path)))
LengthAfterPop(path, i) == PathLength(path[i], SubSeq(path, i + 1, Len(path)))

\* C18 as stated: nav leaves a suffix of the path, and every pop makes the
\* remaining length strictly shorter.
C18_EveryPopShortens ==
    [][\A e \in Entities :
        Navigates(e) /\ pathfind[e].path # <<>> =>
            LET path == pathfind[e].path
                c == Consume(position[e], path, Budget(e))
            IN  /\ pathfind'[e].path = c.path
                /\ IsSuffix(c.path, path)
                /\ \A i \in 1..(Len(path) - Len(c.path)) :
                       LengthAfterPop(path, i)
                           < LengthBeforePop(position[e], path, i)]_vars

\* C18: nav leaves a suffix of the path; the loop pops its waypoints in order,
\* standing on the last one popped; a pop shortens the remaining length by the
\* distance to the popped waypoint: strictly when the waypoint is away from
\* the position the loop has, and not at all when it coincides with it.
C18_PopsInOrder ==
    [][\A e \in Entities :
        Navigates(e) /\ pathfind[e].path # <<>> =>
            LET path == pathfind[e].path
                c == Consume(position[e], path, Budget(e))
                pops == Len(path) - Len(c.path)
            IN  /\ pathfind'[e].path = c.path
                /\ IsSuffix(c.path, path)
                /\ c.pos = PopFrom(position[e], path, pops + 1)
                /\ \A i \in 1..pops :
                       LET before == LengthBeforePop(position[e], path, i)
                           after == LengthAfterPop(path, i)
                       IN  /\ after <= before
                           /\ after < before
                                  <=> path[i] # PopFrom(position[e], path, i)]_vars

\* an entity whose path went through a corner has passed the corner: nav
\* popped it and the rest of the path is what was planned after it
C18_Witness ==
    \E e \in Entities : \E corner \in Corners :
        /\ e \in navigated
        /\ Len(pathfind[e].path) = 1
        /\ position[e] = corner
        /\ owed[e] = Length(Head(pathfind[e].path) - corner)
        /\ owed[e] + Length(corner - StartPos[e])
               > Length(Head(pathfind[e].path) - StartPos[e])

\* what one iteration of generate_paths may leave entity e with, from the
\* state as it is: its Pathfind, its done flag and the signal it is sent
PlanOutcomes(e) ==
    LET r == Repath(pathfind[e], elapsed)
    IN  IF ~r.repath
        THEN {[pathfind |-> [pathfind[e] EXCEPT !.next_repath = r.next_repath],
               done |-> nav[e].done, signal |-> "None"]}
        ELSE {LET path == StoredPath(result, pathfind[e].path)
              IN  [pathfind |-> [pathfind[e] EXCEPT
                                    !.next_repath = r.next_repath,
                                    !.path = path],
                   done |-> IF e \in navs THEN path = <<>> ELSE nav[e].done,
                   signal |-> IF e \in navs /\ result = None THEN "Failure"
                              ELSE "None"] : result \in PathClosure(e)}

\* what one iteration of nav may leave entity e with, from the state as it is:
\* its position, its path, its done flag and the signal it is sent
NavOutcomes(e) ==
    IF pathfind[e].path = <<>>
    THEN {[position |-> position[e], path |-> <<>>, done |-> nav[e].done,
           signal |-> "Success"]}
    ELSE LET c == Consume(position[e], pathfind[e].path, Budget(e))
         IN  {[position |-> Advance(c) + avoid * AvoidDistance(c.travel_dist),
               path |-> c.path,
               done |-> IF c.path = <<>> THEN TRUE ELSE nav[e].done,
               signal |-> IF c.path = <<>> THEN "Success" ELSE "None"] :
                  avoid \in CollisionAvoidance(e, Advance(c), position[e])}

\* the signals queued for entity e in this frame, in order
RECURSIVE Signals(_, _)
Signals(queue, e) ==
    IF queue = <<>> THEN <<>>
    ELSE IF Head(queue)[1] = e
         THEN <<Head(queue)[2]>> \o Signals(Tail(queue), e)
         ELSE Signals(Tail(queue), e)

\* the signal the step queued for entity e, if any
Sent(e) ==
    IF Len(Signals(commands', e)) > Len(Signals(commands, e))
    THEN Signals(commands', e)[Len(Signals(commands', e))]
    ELSE "None"

\* the step left the components and signals of entity e alone
Untouched(e) ==
    /\ position'[e] = position[e]
    /\ pathfind'[e] = pathfind[e]
    /\ nav'[e] = nav[e]
    /\ Signals(commands', e) = Signals(commands, e)

\* C11: within a frame the result for every entity is the same whatever the
\* order generate_paths and nav iterate in.  An iteration for entity a leaves a
\* with one of the outcomes the state before the iteration allows; it writes
\* neither the tree nor the components or signals of another entity; and it
\* leaves the outcomes of every entity still to be iterated as they were, the
\* entities whose Dynamic target is a or that hold a in the tree included.
C11_OrderIndependent ==
    [][\A a \in Entities :
        /\ Plans(a) =>
              /\ [pathfind |-> pathfind'[a], done |-> nav'[a].done,
                  signal |-> Sent(a)] \in PlanOutcomes(a)
              /\ position'[a] = position[a]
              /\ tree' = tree
              /\ \A b \in Entities \ {a} :
                     /\ Untouched(b)
                     /\ b \in todo => PlanOutcomes(b)' = PlanOutcomes(b)
        /\ Navigates(a) =>
              /\ [position |-> position'[a], path |-> pathfind'[a].path,
                  done |-> nav'[a].done, signal |-> Sent(a)] \in NavOutcomes(a)
              /\ tree' = tree
              /\ \A b \in Entities \ {a} :
                     /\ Untouched(b)
                     /\ b \in todo => NavOutcomes(b)' = NavOutcomes(b)]_vars

\* nav has moved one entity that is a collider of the tree and the target of
\* the other, and has the other still to iterate
C11_Witness ==
    \E a \in Entities : \E b \in Entities \ {a} :
        /\ pc = "nav"
        /\ a \in navigated /\ b \in todo
        /\ position[a] # StartPos[a]
        /\ \E x \in tree : x.entity = a /\ x.pos # position[a]
        /\ pathfind[b].target = Dynamic(a)
        /\ pathfind[b].path # <<>>
        /\ delta > 0

\* C12: a path closure that fails for entity a stops nothing and spoils
\* nothing for the others.  The failing iteration takes only a out of the
\* entities generate_paths has still to iterate, writes no component or
\* signal of another entity, and leaves what generate_paths and nav may do for
\* every other entity as it was, which is what a successful plan for a, or a
\* with no Pathfind, leaves too; generate_paths ends having iterated every
\* entity with a Pathfind, and after a failure an entity repaths iff it is due.
C12_FailureIsolated ==
    [][/\ \A a \in Entities :
            Plans(a) /\ a \in repathed' /\ a \in failed' =>
                /\ todo' = todo \ {a}
                /\ pc' = pc /\ tree' = tree
                /\ \A b \in Entities \ {a} :
                       /\ Untouched(b)
                       /\ PlanOutcomes(b)' = PlanOutcomes(b)
                       /\ NavOutcomes(b)' = NavOutcomes(b)
       /\ \A b \in Entities :
            Plans(b) /\ repathed \cap failed # {} =>
                (b \in repathed' <=> Repath(pathfind[b], elapsed).repath)
       /\ pc = "generate_paths" /\ pc' = "nav" =>
            planned = entities \cap pathfinds]_vars

\* one entity's path closure failed in this frame, and the other entity was
\* planned in the same frame and has moved along its path
C12_Witness ==
    \E a \in Entities : \E b \in Entities \ {a} :
        /\ pc = "ticked"
        /\ a \in repathed \cap failed
        /\ Done[a] # "None"
        /\ b \in repathed \ failed
        /\ pathfind[b].path # <<>>
        /\ position[b] # StartPos[b]

\* the entries of t the queue is about: another entity within AVOID_RADIUS of
\* the lookahead point and within MAX_QUEUE_RADIUS of current_pos
QueueNeighbours(t) ==
    LET ahead == forces.current_pos * Centi * Centi
                     + forces.current_velocity * MAX_QUEUE_AHEAD_X100
    IN  {n \in t :
            /\ n.entity # forces.self_id
            /\ QueueDistance(n, ahead) <= AVOID_RADIUS * Centi * Centi
            /\ Length(n.pos - forces.current_pos) <= MAX_QUEUE_RADIUS}

C19_CloserRepelsHarder ==
    Called =>
        LET self_id == forces.self_id
            current_pos == forces.current_pos
            neighbours == SeparationNeighbours(self_id, current_pos, tree)
            force == SeparationForce(self_id, current_pos, tree)
        IN  /\ \A x \in neighbours : \A y \in neighbours :
                   Length(x.pos - current_pos) < Length(y.pos - current_pos)
                       => Length(DeltaOverRate(x, current_pos))
                              > Length(DeltaOverRate(y, current_pos))
            /\ force * Cardinality(neighbours)
                   = 0 - SumDeltaOverRate(neighbours, current_pos)
            /\ \A side \in {0 - 1, 1} :
                   /\ neighbours # {}
                   /\ \A x \in neighbours :
                          Normalize(x.pos - current_pos) = side
                   => Normalize(force) = 0 - side
            /\ \A x \in tree :
                   x.entity = self_id =>
                       force = SeparationForce(self_id, current_pos, tree \ {x})
            /\ neighbours = {} => force = 0

\* C20: apply_forces adds seek, separation and brake together before it caps
\* the steering, so the steering it adds to current_velocity is never longer
\* than MAX_FORCE.
C20_SteeringCapped ==
    Called =>
        \A r \in Returned(tree) : Length(r.steering) <= MAX_FORCE_X100

\* C21: a periodic Pathfind is repathed at elapsed times at least its interval
\* apart, whatever the frames are: a repath comes no sooner than the interval
\* after the repath before it, and it sets the next deadline the interval
\* after its own elapsed time, however late it is.  (So a window of length T
\* holds at most floor(T / interval) + 1 repaths.)
C21_ReplanThrottled ==
    [][\A e \in Entities :
        Plans(e) /\ Periodic(e) /\ e \in repathed' =>
            LET interval == pathfind[e].repath_frequency[1]
            IN  /\ last_repath[e] # Untracked =>
                       elapsed - last_repath[e] >= interval
                /\ last_repath'[e] = elapsed
                /\ pathfind'[e].next_repath = elapsed + interval]_vars

\* a periodic Pathfind repathed again, its interval or more after the repath
\* before, with its deadline counted from the frame that repathed it
C21_Witness ==
    \E e \in Entities :
        /\ Periodic(e) /\ requests = 1
        /\ e \in stepped /\ e \in repathed
        /\ Done[e] # "None"
        /\ last_repath[e] = elapsed
        /\ elapsed > pathfind[e].repath_frequency[1]
        /\ pathfind[e].next_repath = elapsed + pathfind[e].repath_frequency[1]

\* C22: the iteration of nav that pops the last waypoint of the path and sets
\* done leaves the entity on that waypoint, whatever colliders the tree holds.
C22_ArrivalOnGoal ==
    [][\A e \in Entities :
        Navigates(e) /\ pathfind[e].path # <<>> /\ pathfind'[e].path = <<>> =>
            /\ nav'[e].done
            /\ position'[e] = pathfind[e].path[Len(pathfind[e].path)]]_vars

\* the lookahead point of the iteration of nav for e, scaled by
\* MAX_SEE_AHEAD_DEN: from the position e had, towards the one it advances to
LookAhead(e) ==
    LET c == Consume(position[e], pathfind[e].path, Budget(e))
    IN  MAX_SEE_AHEAD_DEN * position[e]
            + Normalize(Advance(c) - position[e]) * MAX_SEE_AHEAD_NUM

\* the entries of the tree that are another entity within COLLISION_RADIUS of
\* the lookahead point
InCollisionRadius(e, ahead) ==
    {x \in tree : /\ x.entity # e
                  /\ AheadDistance(x, ahead)
                         <= MAX_SEE_AHEAD_DEN * COLLISION_RADIUS}

\* C23: in an iteration of nav that moves the entity, when the tree holds
\* another entity within COLLISION_RADIUS of the lookahead point,
\* find_closest_obstacle returns the position of the nearest of them, and it
\* never returns the entry of the entity itself.
C23_FindsNearestOther ==
    [][\A e \in Entities :
        /\ Navigates(e)
        /\ pathfind[e].path # <<>>
        /\ Advance(Consume(position[e], pathfind[e].path, Budget(e)))
               # position[e]
        => LET ahead == LookAhead(e)
               others == InCollisionRadius(e, ahead)
               nearest == {x \in others : \A y \in others :
                              AheadDistance(x, ahead) <= AheadDistance(y, ahead)}
           IN  /\ \A x \in tree :
                      x.entity = e /\ (\A y \in tree \ {x} : y.pos # x.pos)
                          => Some(x.pos) \notin FindClosestObstacle(e, ahead)
               /\ others # {} =>
                      FindClosestObstacle(e, ahead)
                          \subseteq {Some(x.pos) : x \in nearest}]_vars

====
